---------------------------- MODULE Spec2Model ----------------------------
(* A model of dogstatsd-rs: the metric encoder (src/src/metrics.rs) and   *)
(* the Client with its writer thread (src/src/lib.rs).                     *)
(*                                                                         *)
(* Rust Strings are TLA+ strings over ASCII, so that Len is the byte       *)
(* length; Option<T> is a sequence of length 0 (None) or 1 (Some).         *)
EXTENDS Integers, Sequences, FiniteSets, Bags, TLC

(***************************************************************************)
(* Bounds of the model                                                     *)
(***************************************************************************)
NumCallers == 2
MaxAmt == 11
MaxSecs == 1
MaxTags == 2

Callers == 1..NumCallers

None == <<>>
Some(x) == <<x>>

(***************************************************************************)
(* Formatting of integers, as format!("{}", n) does it                     *)
(***************************************************************************)
Digit == <<"0", "1", "2", "3", "4", "5", "6", "7", "8", "9">>

RECURSIVE FmtNat(_)
FmtNat(n) == IF n < 10 THEN Digit[n + 1]
             ELSE FmtNat(n \div 10) \o Digit[(n % 10) + 1]

FmtInt(n) == IF n < 0 THEN "-" \o FmtNat(-n) ELSE FmtNat(n)

(* Rust's integer division, which truncates toward zero *)
TruncDiv(a, b) == IF a >= 0 THEN a \div b ELSE -((-a) \div b)

(* tags.join(",") *)
RECURSIVE Join(_)
Join(t) == IF Len(t) = 0 THEN ""
           ELSE IF Len(t) = 1 THEN t[1]
           ELSE t[1] \o "," \o Join(Tail(t))

(***************************************************************************)
(* chrono: a DateTime<UTC> is <<secs, nanos>> with 0 <= nanos < 10^9, a     *)
(* Duration is <<secs, nanos>> with the same normalisation                  *)
(***************************************************************************)
NANOS_PER_SEC == 1000000000
NANOS_PER_MILLI == 1000000
MILLIS_PER_SEC == 1000

secs(d) == d[1]
nanos(d) == d[2]

DateTimeSub(end, start) ==
    LET s == secs(end) - secs(start)
        n == nanos(end) - nanos(start)
    IN  IF n < 0 THEN <<s - 1, n + NANOS_PER_SEC>> ELSE <<s, n>>

num_seconds(d) == IF secs(d) < 0 /\ nanos(d) > 0 THEN secs(d) + 1 ELSE secs(d)

nanos_mod_sec(d) ==
    IF secs(d) < 0 /\ nanos(d) > 0 THEN nanos(d) - NANOS_PER_SEC ELSE nanos(d)

num_milliseconds(d) ==
    num_seconds(d) * MILLIS_PER_SEC + TruncDiv(nanos_mod_sec(d), NANOS_PER_MILLI)

(***************************************************************************)
(* The metric values (metrics.rs) and their constructors: a value is the   *)
(* tuple of its kind and its fields in declaration order                   *)
(***************************************************************************)
Incr(stat, count) == <<"Incr", stat, count>>
Decr(stat, count) == <<"Decr", stat, count>>
TimeMetricNew(stat, start_time, end_time) == <<"Time", start_time, end_time, stat>>
TimingMetricNew(stat, ms) == <<"Timing", ms, stat>>
GaugeMetricNew(stat, val) == <<"Gauge", stat, val>>
HistogramMetricNew(stat, val) == <<"Histogram", stat, val>>
SetMetricNew(stat, val) == <<"Set", stat, val>>
EventNew(title, text) == <<"Event", title, text>>
NoMetric == <<"None">>

kind(m) == m[1]

(***************************************************************************)
(* render, one per implementation of the Metric trait                      *)
(***************************************************************************)
(* variant: a decrement without the case for 0 *)
CountMetricRender_nozero(m) ==
    LET stat == m[2]
        count == m[3]
    IN  IF kind(m) = "Incr" THEN stat \o ":" \o FmtNat(count) \o "|c"
        ELSE stat \o ":-" \o FmtNat(count) \o "|c"

CountMetricRender(m) ==
    LET stat == m[2]
        count == m[3]
    IN  IF kind(m) = "Incr" THEN stat \o ":" \o FmtNat(count) \o "|c"
        ELSE IF count = 0 THEN stat \o ":0|c"
        ELSE stat \o ":-" \o FmtNat(count) \o "|c"

(* variant: the operands of the subtraction exchanged *)
TimeMetricRender_swapped(m) ==
    LET start_time == m[2]
        end_time == m[3]
        stat == m[4]
        dur == DateTimeSub(start_time, end_time)
    IN  stat \o ":" \o FmtInt(num_milliseconds(dur)) \o "|ms"

TimeMetricRender(m) ==
    LET start_time == m[2]
        end_time == m[3]
        stat == m[4]
        dur == DateTimeSub(end_time, start_time)
    IN  stat \o ":" \o FmtInt(num_milliseconds(dur)) \o "|ms"

TimingMetricRender(m) ==
    LET ms == m[2]
        stat == m[3]
    IN  stat \o ":" \o FmtInt(ms) \o "|ms"

GaugeMetricRender(m) ==
    LET stat == m[2]
        val == m[3]
    IN  stat \o ":" \o val \o "|g"

HistogramMetricRender(m) ==
    LET stat == m[2]
        val == m[3]
    IN  stat \o ":" \o val \o "|h"

SetMetricRender(m) ==
    LET stat == m[2]
        val == m[3]
    IN  stat \o ":" \o val \o "|s"

EventRender(m) ==
    LET title == m[2]
        text == m[3]
    IN  "_e{" \o FmtNat(Len(title)) \o "," \o FmtNat(Len(text)) \o "}:"
              \o title \o "|" \o text

render(m) ==
    CASE kind(m) \in {"Incr", "Decr"} -> CountMetricRender(m)
      [] kind(m) = "Time"      -> TimeMetricRender(m)
      [] kind(m) = "Timing"    -> TimingMetricRender(m)
      [] kind(m) = "Gauge"     -> GaugeMetricRender(m)
      [] kind(m) = "Histogram" -> HistogramMetricRender(m)
      [] kind(m) = "Set"       -> SetMetricRender(m)
      [] kind(m) = "Event"     -> EventRender(m)

(* the trait's default render_ns *)
MetricRenderNs(m, ns) ==
    IF ns # None THEN ns[1] \o "." \o render(m) ELSE render(m)

(* variant: Event without its own render_ns *)
EventRenderNs_default(m, ns) == MetricRenderNs(m, ns)

(* Event's own render_ns *)
EventRenderNs(m, ns) == render(m)

render_ns(m, ns) ==
    IF kind(m) = "Event" THEN EventRenderNs(m, ns)
    ELSE MetricRenderNs(m, ns)

render_full(m, ns, t) ==
    LET metric == render_ns(m, ns)
        joined == Join(t)
    IN  IF joined = "" THEN metric ELSE metric \o "|#" \o joined

(***************************************************************************)
(* Options (lib.rs)                                                        *)
(***************************************************************************)
(* Options is <<from_addr, to_addr, namespace>> *)
OptionsDefault == <<"127.0.0.1:8126", "127.0.0.1:8125", None>>

OptionsNew(from_addr, to_addr, ns) ==
    <<from_addr, to_addr, IF "" # ns THEN Some(ns) ELSE None>>

from_addr_of(o) == o[1]
to_addr_of(o) == o[2]
namespace_of(o) == o[3]

(* The address strings the model draws from, and which of them are literal *)
(* "ip:port" socket addresses: str::parse::<SocketAddr> accepts no others, *)
(* in particular no host names.                                            *)
FromAddrs == {"127.0.0.1:8126", "127.0.0.1"}
ToAddrs == {"127.0.0.1:8125", "localhost:8125"}
NamespaceArgs == {"", "ns"}
SocketAddrLiterals == {"127.0.0.1:8126", "127.0.0.1:8125"}

ParseSocketAddr(s) == IF s \in SocketAddrLiterals THEN Some(s) ELSE None

(* UdpSocket::bind: the address must resolve and the port must be free *)
UdpSocketBind(addr, in_use) ==
    IF ParseSocketAddr(addr) = None \/ in_use THEN "Err" ELSE "Ok"

(***************************************************************************)
(* The state                                                               *)
(***************************************************************************)
VARIABLES
    options,    \* the Options handed to Client::new
    result,     \* how Client::new ended: "none" (not called), "Ok", "Err", "panic"
    socket,     \* the UdpSocket: "none", "bound", "closed"
    client,     \* the Client value: "none", "alive", "dropped"
    namespace,  \* Client.namespace
    queue,      \* the mpsc channel's buffer
    rx,         \* TRUE while the Receiver exists
    thread,     \* writer thread: "none", "recv", "send_to", "failed", "Ok", "Err"
    cur,        \* the msg the writer thread holds
    writes,     \* history of the socket.send_to calls: <<msg, ok>>
    accepted,   \* history of the payloads tx.send accepted, in order
    pc,         \* per caller: "idle", "send", "done", "panic"
    metric,     \* per caller: the metric value of its call
    tags,       \* per caller: the tags of its call
    msg,        \* per caller: the rendered payload
    log,        \* per caller: "none", "trace" (queued), "warn" (send failed)
    seen        \* per caller: the writer thread's state when its call began

vars == <<options, result, socket, client, namespace, queue, rx, thread, cur,
          writes, accepted, pc, metric, tags, msg, log, seen>>

callVars == <<pc, metric, tags, msg, log, seen>>

IdleCallers ==
    /\ pc = [c \in Callers |-> "idle"]
    /\ metric = [c \in Callers |-> NoMetric]
    /\ tags = [c \in Callers |-> <<>>]
    /\ msg = [c \in Callers |-> None]
    /\ log = [c \in Callers |-> "none"]
    /\ seen = [c \in Callers |-> "none"]

Init ==
    /\ options \in {OptionsDefault}
           \cup {OptionsNew(f, t, ns) : f \in FromAddrs, t \in ToAddrs, ns \in NamespaceArgs}
    /\ result = "none"
    /\ socket = "none"
    /\ client = "none"
    /\ namespace = None
    /\ queue = <<>>
    /\ rx = FALSE
    /\ thread = "none"
    /\ cur = None
    /\ writes = <<>>
    /\ accepted = <<>>
    /\ IdleCallers

(***************************************************************************)
(* Client::new                                                             *)
(***************************************************************************)
ClientNew(in_use, spawn_ok) ==
    /\ result = "none"
    /\ IF UdpSocketBind(from_addr_of(options), in_use) = "Err"
       THEN \* bind's Err is mapped through: nothing was created
            /\ result' = "Err"
            /\ UNCHANGED <<socket, client, namespace, thread, rx>>
       ELSE IF ParseSocketAddr(to_addr_of(options)) = None \/ ~spawn_ok
       THEN \* unwrap() panics inside the closure; the bound socket is dropped
            /\ result' = "panic"
            /\ socket' = "closed"
            /\ UNCHANGED <<client, namespace, thread, rx>>
       ELSE /\ result' = "Ok"
            /\ socket' = "bound"
            /\ client' = "alive"
            /\ namespace' = namespace_of(options)
            /\ thread' = "recv"
            /\ rx' = TRUE
    /\ UNCHANGED <<options, queue, cur, writes, accepted>>
    /\ UNCHANGED callVars

(***************************************************************************)
(* Client::send, first half: render the packet                             *)
(***************************************************************************)
send(c, m, t) ==
    /\ client = "alive"
    /\ pc[c] = "idle"
    /\ metric' = [metric EXCEPT ![c] = m]
    /\ tags' = [tags EXCEPT ![c] = t]
    /\ msg' = [msg EXCEPT ![c] = Some(render_full(m, namespace, t))]
    /\ pc' = [pc EXCEPT ![c] = "send"]
    /\ seen' = [seen EXCEPT ![c] = thread]
    /\ UNCHANGED <<options, result, socket, client, namespace, queue, rx,
                   thread, cur, writes, accepted, log>>

(* Sender::send: the Receiver takes the value unless it is gone *)
(* returns <<is Ok, the buffer afterwards>> *)
tx_send(q, open, m) == IF open THEN <<TRUE, Append(q, m)>> ELSE <<FALSE, q>>

(* variant: a channel of capacity 1, whose send waits for room *)
TxSend_bounded(c) ==
    /\ pc[c] = "send"
    /\ Len(queue) < 1
    /\ LET r == tx_send(queue, rx, msg[c][1])
       IN  /\ queue' = r[2]
           /\ log' = [log EXCEPT ![c] = IF r[1] THEN "trace" ELSE "warn"]
           /\ accepted' = IF r[1] THEN Append(accepted, msg[c][1]) ELSE accepted
    /\ pc' = [pc EXCEPT ![c] = "done"]
    /\ UNCHANGED <<options, result, socket, client, namespace, rx, thread,
                   cur, writes, metric, tags, msg, seen>>

(* Client::send, second half: hand the packet to the channel and log *)
TxSend(c) ==
    /\ pc[c] = "send"
    /\ LET r == tx_send(queue, rx, msg[c][1])
       IN  /\ queue' = r[2]
           /\ log' = [log EXCEPT ![c] = IF r[1] THEN "trace" ELSE "warn"]
           /\ accepted' = IF r[1] THEN Append(accepted, msg[c][1]) ELSE accepted
    /\ pc' = [pc EXCEPT ![c] = "done"]
    /\ UNCHANGED <<options, result, socket, client, namespace, rx, thread,
                   cur, writes, metric, tags, msg, seen>>

(***************************************************************************)
(* The public metric calls                                                 *)
(***************************************************************************)
incr_by(c, stat, amt, t) == send(c, Incr(stat, amt), t)

incr(c, stat, t) == incr_by(c, stat, 1, t)

decr_by(c, stat, amt, t) == send(c, Decr(stat, amt), t)

decr(c, stat, t) == decr_by(c, stat, 1, t)

(* block() runs between the two readings of the clock; when it panics the  *)
(* call unwinds and nothing is sent                                         *)
time(c, stat, t, start_time, end_time, block_panics) ==
    IF block_panics
    THEN /\ client = "alive"
         /\ pc[c] = "idle"
         /\ pc' = [pc EXCEPT ![c] = "panic"]
         /\ UNCHANGED <<options, result, socket, client, namespace, queue, rx,
                        thread, cur, writes, accepted, metric, tags, msg, log, seen>>
    ELSE send(c, TimeMetricNew(stat, start_time, end_time), t)

timing(c, stat, ms, t) == send(c, TimingMetricNew(stat, ms), t)

gauge(c, stat, val, t) == send(c, GaugeMetricNew(stat, val), t)

histogram(c, stat, val, t) == send(c, HistogramMetricNew(stat, val), t)

set(c, stat, val, t) == send(c, SetMetricNew(stat, val), t)

event(c, title, text, t) == send(c, EventNew(title, text), t)

(***************************************************************************)
(* The writer thread: for msg in rx.iter() { socket.send_to(..)?; } Ok(()) *)
(***************************************************************************)
(* variant: the newest value first *)
rx_next_lifo(q) == Len(q)

(* the position in the buffer of the value recv takes *)
rx_next(q) == 1

(* variant: the value behind the taken one is dropped with it *)
Remove_two(q, i) == SubSeq(q, 1, i - 1) \o SubSeq(q, i + 2, Len(q))

Remove(q, i) == SubSeq(q, 1, i - 1) \o SubSeq(q, i + 1, Len(q))

ThreadRecv ==
    /\ thread = "recv"
    /\ queue # <<>>
    /\ cur' = Some(queue[rx_next(queue)])
    /\ queue' = Remove(queue, rx_next(queue))
    /\ thread' = "send_to"
    /\ UNCHANGED <<options, result, socket, client, namespace, rx, writes, accepted>>
    /\ UNCHANGED callVars

(* variant: the result of send_to is ignored *)
after_send_to_ignored(ok) == "recv"

(* where the loop goes after send_to returned: `?` leaves it on an Err *)
after_send_to(ok) == IF ok THEN "recv" ELSE "failed"

ThreadSendTo(ok) ==
    /\ thread = "send_to"
    /\ writes' = Append(writes, <<cur[1], ok>>)
    /\ cur' = None
    /\ thread' = after_send_to(ok)
    /\ UNCHANGED <<options, result, socket, client, namespace, queue, rx, accepted>>
    /\ UNCHANGED callVars

(* the closure returns the Err: rx and the socket are dropped with it *)
ThreadExitErr ==
    /\ thread = "failed"
    /\ thread' = "Err"
    /\ rx' = FALSE
    /\ queue' = <<>>
    /\ socket' = "closed"
    /\ UNCHANGED <<options, result, client, namespace, cur, writes, accepted>>
    /\ UNCHANGED callVars

(* variant: the iteration ends as soon as every Sender is gone *)
iter_ends_early(q, cl) == cl = "dropped"

(* rx.iter() ends: every Sender is gone and the buffer is empty *)
iter_ends(q, cl) == cl = "dropped" /\ q = <<>>

ThreadExitOk ==
    /\ thread = "recv"
    /\ iter_ends(queue, client)
    /\ thread' = "Ok"
    /\ rx' = FALSE
    /\ socket' = "closed"
    /\ UNCHANGED <<options, result, client, namespace, queue, cur, writes, accepted>>
    /\ UNCHANGED callVars

(* The Client goes out of scope: tx is dropped, the JoinHandle detaches    *)
(* the thread. No call borrows the Client at that point.                   *)
ClientDrop ==
    /\ client = "alive"
    /\ \A c \in Callers : pc[c] # "send"
    /\ client' = "dropped"
    /\ UNCHANGED <<options, result, socket, namespace, queue, rx, thread, cur,
                   writes, accepted>>
    /\ UNCHANGED callVars

(***************************************************************************)
(* The inputs of the calls                                                 *)
(***************************************************************************)
Stats == {"a", "bc"}
Amts == 0..MaxAmt
Millis == (0 - MaxAmt)..MaxAmt
Vals == {"", "1", "12345"}
Titles == {"", "T", "Event Title"}
TagStrings == {"", "a:b"}
TagSeqs == UNION {[1..n -> TagStrings] : n \in 0..MaxTags}
Timestamps == (0..MaxSecs) \X {0, 1500000, 999999999}

(* the inputs of the concurrent runs: one stat, one instant, at most one tag *)
Stat1 == {"a"}
Amt1 == {0, 1}
Tags1 == {<<>>, <<"a:b">>}
Noon == <<0, 0>>

(***************************************************************************)
(* Spec: Client::new, concurrent callers, the writer thread, the drop      *)
(***************************************************************************)
Calls(c) ==
    \/ \E s \in Stat1 : incr(c, s, <<>>)
    \/ \E s \in Stat1, n \in Amt1 : incr_by(c, s, n, <<>>)
    \/ \E s \in Stat1 : decr(c, s, <<>>)
    \/ \E s \in Stat1, n \in Amt1 : decr_by(c, s, n, <<>>)
    \/ \E s \in Stat1, b \in BOOLEAN : time(c, s, <<>>, Noon, Noon, b)
    \/ \E s \in Stat1 : timing(c, s, 0, <<>>)
    \/ \E s \in Stat1, t \in Tags1 : gauge(c, s, "1", t)
    \/ \E s \in Stat1 : histogram(c, s, "1", <<>>)
    \/ \E s \in Stat1 : set(c, s, "1", <<>>)
    \/ event(c, "T", "B", <<>>)

Next ==
    \/ \E in_use \in BOOLEAN, spawn_ok \in BOOLEAN : ClientNew(in_use, spawn_ok)
    \/ \E c \in Callers : Calls(c)
    \/ \E c \in Callers : TxSend(c)
    \/ ThreadRecv
    \/ \E ok \in BOOLEAN : ThreadSendTo(ok)
    \/ ThreadExitErr
    \/ ThreadExitOk
    \/ ClientDrop

Spec == Init /\ [][Next]_vars

(* The operating system schedules the writer thread, and a caller that     *)
(* entered a call finishes it.                                              *)
Fairness ==
    /\ WF_vars(ThreadRecv)
    /\ WF_vars(\E ok \in BOOLEAN : ThreadSendTo(ok))
    /\ WF_vars(ThreadExitErr)
    /\ WF_vars(ThreadExitOk)
    /\ \A c \in Callers : WF_vars(TxSend(c))

(* FairSpec: the same program under that scheduling, the callers recording *)
(* counters, gauges and events only                                         *)
CallsFair(c) ==
    \/ \E st \in Stat1 : incr(c, st, <<>>)
    \/ \E st \in Stat1, t \in Tags1 : gauge(c, st, "1", t)
    \/ event(c, "T", "B", <<>>)

NextFair ==
    \/ \E in_use \in BOOLEAN, spawn_ok \in BOOLEAN : ClientNew(in_use, spawn_ok)
    \/ \E c \in Callers : CallsFair(c)
    \/ \E c \in Callers : TxSend(c)
    \/ ThreadRecv
    \/ \E ok \in BOOLEAN : ThreadSendTo(ok)
    \/ ThreadExitErr
    \/ ThreadExitOk
    \/ ClientDrop

FairSpec == Init /\ [][NextFair]_vars /\ Fairness

(***************************************************************************)
(* SpecRender: one caller drives every call of a constructed Client over   *)
(* the full input sets; the writer thread is not scheduled.                *)
(***************************************************************************)
InitRender ==
    /\ options \in {OptionsNew("127.0.0.1:8126", "127.0.0.1:8125", ns) : ns \in NamespaceArgs}
    /\ result = "Ok"
    /\ socket = "bound"
    /\ client = "alive"
    /\ namespace = namespace_of(options)
    /\ queue = <<>>
    /\ rx = TRUE
    /\ thread = "recv"
    /\ cur = None
    /\ writes = <<>>
    /\ accepted = <<>>
    /\ IdleCallers

NextRender ==
    \/ \E s \in Stats, t \in TagSeqs : incr(1, s, t)
    \/ \E s \in Stats, n \in Amts, t \in TagSeqs : incr_by(1, s, n, t)
    \/ \E s \in Stats, t \in TagSeqs : decr(1, s, t)
    \/ \E s \in Stats, n \in Amts, t \in TagSeqs : decr_by(1, s, n, t)
    \/ \E s \in Stats, t \in Tags1, t0 \in Timestamps, t1 \in Timestamps, b \in BOOLEAN :
           time(1, s, t, t0, t1, b)
    \/ \E s \in Stats, ms \in Millis, t \in TagSeqs : timing(1, s, ms, t)
    \/ \E s \in Stats, v \in Vals, t \in TagSeqs : gauge(1, s, v, t)
    \/ \E s \in Stats, v \in Vals, t \in TagSeqs : histogram(1, s, v, t)
    \/ \E s \in Stats, v \in Vals, t \in TagSeqs : set(1, s, v, t)
    \/ \E ti \in Titles, te \in Vals, t \in TagSeqs : event(1, ti, te, t)
    \/ TxSend(1)

SpecRender == InitRender /\ [][NextRender]_vars

(***************************************************************************)
(* Helpers of the properties                                               *)
(***************************************************************************)
WrittenMsgs == [i \in 1..Len(writes) |-> writes[i][1]]

AnyWriteFailed == \E i \in 1..Len(writes) : ~writes[i][2]

Submitters == {c \in Callers : pc[c] = "done"}

SeqBag(q) == [x \in {q[i] : i \in 1..Len(q)} |-> Cardinality({i \in 1..Len(q) : q[i] = x})]

SubmittedBag ==
    [x \in {msg[c][1] : c \in Submitters} |-> Cardinality({c \in Submitters : msg[c][1] = x})]

(***************************************************************************)
(* C1: the writer thread attempts its writes in the order in which the     *)
(* channel accepted the payloads: at every moment the payloads handed to   *)
(* send_to so far are a prefix of the accepted payloads.                   *)
(***************************************************************************)
C1_WritesInSubmissionOrder ==
    /\ Len(writes) <= Len(accepted)
    /\ WrittenMsgs = SubSeq(accepted, 1, Len(writes))

C1_Witness ==
    /\ Len(writes) = 2
    /\ writes[1][1] # writes[2][1]
    /\ accepted = WrittenMsgs

(***************************************************************************)
(* C2: when no write fails, the run settles with exactly one write per     *)
(* submitted payload, each written datagram being the payload its caller   *)
(* rendered: the written payloads are, as a bag, the submitted payloads.   *)
(***************************************************************************)
C2_Delivered ==
    /\ \A c \in Callers : pc[c] # "send"
    /\ \A c \in Submitters : log[c] = "trace"
    /\ Len(writes) = Cardinality(Submitters)
    /\ SeqBag(WrittenMsgs) = SubmittedBag

C2_EveryPayloadWrittenOnce == <>[](AnyWriteFailed \/ C2_Delivered)

C2_Witness ==
    /\ Submitters = Callers
    /\ ~AnyWriteFailed
    /\ Len(writes) = NumCallers
    /\ \E c \in Callers : msg[c][1] = writes[1][1]

(***************************************************************************)
(* C10: the writer thread ends with Ok only after the Client was dropped   *)
(* and every accepted payload was handed to send_to, in the order of       *)
(* acceptance; and once the Client is dropped it does end, with Ok unless  *)
(* a write failed.                                                         *)
(***************************************************************************)
C10_OkOnlyWhenDrained ==
    thread = "Ok" =>
        /\ client = "dropped"
        /\ queue = <<>>
        /\ cur = None
        /\ WrittenMsgs = accepted
        /\ ~AnyWriteFailed

C10_DrainsAfterDrop ==
    /\ []C10_OkOnlyWhenDrained
    /\ (client = "dropped") ~> (thread = "Ok" \/ AnyWriteFailed)

C10_Witness ==
    /\ thread = "Ok"
    /\ Len(writes) = 2
    /\ writes[1][1] # writes[2][1]

(***************************************************************************)
(* C3, as claimed: after a failed write nothing more is written, the       *)
(* thread stays terminated, and every call that began after the failed     *)
(* write is rejected by the channel ("warn"), never "queued".              *)
(***************************************************************************)
C3_NoWriteAfterFailure ==
    AnyWriteFailed' =>
        /\ thread' \in {"failed", "Err"}
        /\ thread = "Err" => thread' = "Err"
        /\ AnyWriteFailed => writes' = writes
        /\ ~writes'[Len(writes')][2]

C3_RejectedAfterFailedWrite ==
    [][/\ C3_NoWriteAfterFailure
       /\ \A c \in Callers :
            (pc'[c] = "done" /\ seen'[c] \in {"failed", "Err"}) => log'[c] = "warn"]_vars

(***************************************************************************)
(* C3, amended: after a failed write nothing more is written, the thread   *)
(* goes from "failed" to "Err" only and stays there, and every call that   *)
(* began after the thread had terminated (its Receiver dropped) is         *)
(* rejected; a payload accepted after the failed write is discarded with   *)
(* the channel.                                                            *)
(***************************************************************************)
C3_RejectedAfterTermination ==
    [][/\ C3_NoWriteAfterFailure
       /\ thread' = "Err" => (queue' = <<>> /\ ~rx')
       /\ \A c \in Callers :
            (pc'[c] = "done" /\ seen'[c] = "Err") => log'[c] = "warn"]_vars

C3_Witness ==
    /\ thread = "Err"
    /\ AnyWriteFailed
    /\ \E c \in Callers : pc[c] = "done" /\ seen[c] = "Err" /\ log[c] = "warn"

(***************************************************************************)
(* C4: a call never waits and always returns: whatever the writer thread   *)
(* does, a caller in its call can take its next step, which ends the call; *)
(* and a rejected payload changes nothing but the caller's log.            *)
(***************************************************************************)
C4_CallEnabled ==
    \A c \in Callers :
        /\ (client = "alive" /\ pc[c] = "idle") => ENABLED Calls(c)
        /\ pc[c] = "send" => ENABLED TxSend(c)

C4_Returns ==
    \A c \in Callers :
        /\ (pc[c] = "send" /\ pc'[c] # "send") =>
              /\ pc'[c] = "done"
              /\ log'[c] \in {"trace", "warn"}
              /\ log'[c] = "trace" <=> rx
        /\ (pc[c] = "send" /\ log'[c] = "warn") =>
              /\ queue' = queue
              /\ accepted' = accepted
              /\ <<client, namespace, rx, thread, cur, writes, socket>>'
                    = <<client, namespace, rx, thread, cur, writes, socket>>

C4_CallsNeverBlockNorFail == []C4_CallEnabled /\ [][C4_Returns]_vars

C4_Witness ==
    /\ \E c \in Callers : pc[c] = "done" /\ log[c] = "trace"
    /\ \E c \in Callers : pc[c] = "done" /\ log[c] = "warn" /\ seen[c] = "failed"

(***************************************************************************)
(* C5, as claimed: Client::new returns Err, with no Client and no writer   *)
(* thread, when the local address is not bindable and when the remote      *)
(* address does not parse; when it returns Ok the thread is started.       *)
(***************************************************************************)
C5_ConstructionFailsWithErr ==
    /\ (result # "none" /\ ParseSocketAddr(from_addr_of(options)) = None) =>
          (result = "Err" /\ client = "none" /\ thread = "none")
    /\ (result # "none" /\ ParseSocketAddr(to_addr_of(options)) = None) =>
          (result = "Err" /\ client = "none" /\ thread = "none")
    /\ result = "Ok" => (client # "none" /\ thread # "none")

(***************************************************************************)
(* The callers whose call has rendered its packet                          *)
(***************************************************************************)
Rendered == {c \in Callers : msg[c] # None}

(***************************************************************************)
(* C6, as claimed: the packet is render_ns when there are no tags and      *)
(* render_ns, "|#" and the tags joined by "," whenever there is at least   *)
(* one tag, empty tag strings included.                                    *)
(***************************************************************************)
C6_TagsAppendedWheneverPresent ==
    \A c \in Rendered :
        msg[c][1] = IF tags[c] = <<>> THEN render_ns(metric[c], namespace)
                    ELSE render_ns(metric[c], namespace) \o "|#" \o Join(tags[c])

(***************************************************************************)
(* C7: without namespace the packet is the bare rendering (and its tags);  *)
(* with a namespace ns the packet of a Count, Gauge, Histogram, Set,       *)
(* Timing or ElapsedTime metric is ns, ".", and the bare rendering; the    *)
(* packet of an Event is the same with and without namespace.              *)
(***************************************************************************)
C7_NamespacePrefix ==
    \A c \in Rendered :
        LET m == metric[c]
            bare == render_full(m, None, tags[c])
        IN  /\ render_ns(m, None) = render(m)
            /\ namespace = None => msg[c][1] = bare
            /\ (namespace # None /\ kind(m) \in {"Incr", "Decr", "Gauge", "Histogram",
                                                 "Set", "Timing", "Time"}) =>
                  /\ render_ns(m, namespace) = namespace[1] \o "." \o render(m)
                  /\ msg[c][1] = namespace[1] \o "." \o bare
            /\ kind(m) = "Event" =>
                  /\ render_ns(m, namespace) = render(m)
                  /\ msg[c][1] = bare

C7_Witness ==
    /\ namespace = Some("ns")
    /\ \E c \in Rendered : /\ kind(metric[c]) = "Event"
                           /\ pc[c] = "done"
                           /\ queue = <<"_e{1,5}:T|12345|#a:b">>

(***************************************************************************)
(* The milliseconds between two instants, rounded down and rounded toward  *)
(* zero                                                                    *)
(***************************************************************************)
FloorMillis(end, start) ==
    (secs(end) - secs(start)) * 1000 + ((nanos(end) - nanos(start)) \div 1000000)

WholeMillis(end, start) == (nanos(end) - nanos(start)) % 1000000 = 0

TowardZeroMillis(end, start) ==
    IF FloorMillis(end, start) < 0 /\ ~WholeMillis(end, start)
    THEN FloorMillis(end, start) + 1
    ELSE FloorMillis(end, start)

NotBefore(end, start) ==
    \/ secs(end) > secs(start)
    \/ secs(end) = secs(start) /\ nanos(end) >= nanos(start)

(***************************************************************************)
(* C8, as claimed: an ElapsedTime metric renders as the Timing metric of   *)
(* floor((end - start) in milliseconds), also when end < start.            *)
(***************************************************************************)
C8_ElapsedIsFloor ==
    \A c \in Rendered :
        kind(metric[c]) = "Time" =>
            LET m == metric[c]
            IN  render(m) = m[4] \o ":" \o FmtInt(FloorMillis(m[3], m[2])) \o "|ms"

(***************************************************************************)
(* C8, amended: an ElapsedTime metric renders as the Timing metric of      *)
(* (end - start) in milliseconds rounded toward zero: the floor when       *)
(* end >= start, "{stat}:0|ms" for an empty interval, and a negative       *)
(* number, never an error, when end < start.                               *)
(***************************************************************************)
C8_ElapsedIsTruncated ==
    \A c \in Rendered :
        kind(metric[c]) = "Time" =>
            LET m == metric[c]
                ms == TowardZeroMillis(m[3], m[2])
            IN  /\ render(m) = m[4] \o ":" \o FmtInt(ms) \o "|ms"
                /\ msg[c][1] = render_full(TimingMetricNew(m[4], ms), namespace, tags[c])
                /\ m[3] = m[2] => render(m) = m[4] \o ":0|ms"
                /\ NotBefore(m[3], m[2]) => ms = FloorMillis(m[3], m[2])
                /\ ~NotBefore(m[3], m[2]) => ms <= 0

C8_Witness ==
    \E c \in Rendered :
        /\ metric[c] = TimeMetricNew("a", <<1, 1500000>>, <<0, 0>>)
        /\ msg[c] = Some("a:-1001|ms")
        /\ FloorMillis(<<0, 0>>, <<1, 1500000>>) = 0 - 1002

(***************************************************************************)
(* C9: an increment by n renders "{stat}:{n}|c", a decrement by 0          *)
(* "{stat}:0|c" and a decrement by n > 0 "{stat}:-{n}|c"; decr_by(stat, 0, *)
(* []) on a Client without namespace enqueues exactly "{stat}:0|c".        *)
(***************************************************************************)
C9_CountRendering ==
    \A c \in Rendered :
        LET m == metric[c]
        IN  /\ kind(m) = "Incr" => render(m) = m[2] \o ":" \o FmtNat(m[3]) \o "|c"
            /\ (kind(m) = "Decr" /\ m[3] = 0) => render(m) = m[2] \o ":0|c"
            /\ (kind(m) = "Decr" /\ m[3] > 0) =>
                  render(m) = m[2] \o ":-" \o FmtNat(m[3]) \o "|c"
            /\ (kind(m) = "Decr" /\ m[3] = 0 /\ tags[c] = <<>> /\ namespace = None
                  /\ pc[c] = "done") =>
                  queue = <<m[2] \o ":0|c">>

C9_Witness ==
    /\ namespace = None
    /\ pc[1] = "done"
    /\ metric[1] = Decr("bc", 0)
    /\ tags[1] = <<>>
    /\ queue = <<"bc:0|c">>

=============================================================================
